---- MODULE Spec2Model ----
(***************************************************************************)
(* Model of synthcity/plugins/core/distribution.py: the Distribution      *)
(* hierarchy (Categorical, Float, Log, Integer, IntLog, Datetime), its    *)
(* construction-time validators, its queries and its sampling on the      *)
(* process-wide numpy generator.                                          *)
(*                                                                         *)
(* Numbers are fixed-point with one fractional bit: the integer v stands  *)
(* for the number v / Scale, so 3 is 1.5 and 4 is the integer 2.  Python  *)
(* str values are the codes ObjBase, ObjBase+1, ...  NaN is the missing   *)
(* value (NaN / NaT): every ordering comparison with it is false.         *)
(* Datetimes and timedeltas are integer ticks.                            *)
(***************************************************************************)
EXTENDS Integers, Sequences, FiniteSets, TLC

\* ------------------------------------------------------------------ bounds
MaxVal == 2
MaxData == 3
MaxChoices == 3
MaxCount == 2
MaxSeed == 1

\* --------------------------------------------------------- representation
Scale == 2
NaN == -1000
ObjBase == 100
RngMod == 8
RngMul == 5
RngInc == 7

VARIABLES d, args, out, rng, hist, pair, calls

vars == <<d, args, out, rng, hist, pair, calls>>

\* ------------------------------------------------------------ value domain
Nums == 0..(Scale * MaxVal)
Ints == {v \in Nums : v % Scale = 0}
NumKeys == {NaN, Scale, Scale + 1, 2 * Scale}
CatKeys == NumKeys \cup {ObjBase}
CatVals == {Scale, Scale + 1, 2 * Scale, ObjBase}
Ticks == 0..MaxVal
TickKeys == {NaN, 1, 2}
Seeds == 0..MaxSeed
Counts == 1..MaxCount
Names == {"x"}

IsNaN(v) == v = NaN
IsObj(v) == v >= ObjBase

\* Python's <= on numbers: false as soon as one side is NaN.
Le(a, b) == ~IsNaN(a) /\ ~IsNaN(b) /\ a <= b

\* int(v): truncation toward zero; raises on NaN (callers test IsNaN first).
TruncInt(v) == IF v >= 0 THEN (v \div Scale) * Scale ELSE -(((-v) \div Scale) * Scale)

SeqsUpTo(S, n) == UNION {[1..k -> S] : k \in 0..n}

Range(s) == {s[i] : i \in 1..Len(s)}

\* ------------------------------------------------- marginal (value_counts)
CountOf(s, k) == Cardinality({i \in 1..Len(s) : s[i] = k})

\* distinct values in order of first appearance
RECURSIVE Distinct(_)
Distinct(s) ==
    IF s = <<>> THEN <<>>
    ELSE LET r == Distinct(SubSeq(s, 1, Len(s) - 1))
             x == s[Len(s)]
         IN IF x \in Range(r) THEN r ELSE Append(r, x)

\* stable insertion of key k (count c) into a table ordered by count, descending
RECURSIVE InsertByCount(_, _)
InsertByCount(t, e) ==
    IF t = <<>> THEN <<e>>
    ELSE IF t[Len(t)][2] >= e[2] THEN Append(t, e)
    ELSE Append(InsertByCount(SubSeq(t, 1, Len(t) - 1), e), t[Len(t)])

RECURSIVE SortByCount(_)
SortByCount(t) ==
    IF t = <<>> THEN <<>>
    ELSE InsertByCount(SortByCount(SubSeq(t, 1, Len(t) - 1)), t[Len(t)])

\* data.value_counts(dropna=False): <<key, count>> pairs, most frequent first,
\* the missing value kept as a key
value_counts(data) ==
    LET ks == Distinct(data)
    IN SortByCount([i \in 1..Len(ks) |-> <<ks[i], CountOf(data, ks[i])>>])

\* marginal_distribution.index
Index(m) == [i \in 1..Len(m) |-> m[i][1]]

\* Index.min() / Index.max(): the missing value is skipped; NaN when nothing is left
IndexMin(m) ==
    LET ks == {k \in Range(Index(m)) : ~IsNaN(k)}
    IN IF ks = {} THEN NaN ELSE CHOOSE k \in ks : \A j \in ks : k <= j

IndexMax(m) ==
    LET ks == {k \in Range(Index(m)) : ~IsNaN(k)}
    IN IF ks = {} THEN NaN ELSE CHOOSE k \in ks : \A j \in ks : k >= j

\* ------------------------------------------------------------ distributions
NoMarginal == [present |-> FALSE, tab |-> <<>>]

NoDist ==
    [kind |-> "none", name |-> "", random_state |-> 0,
     marginal_distribution |-> NoMarginal,
     low |-> 0, high |-> 0, step |-> 0, offset |-> 0, choices |-> <<>>]

NoArgs ==
    [kind |-> "none", name |-> "", random_state |-> 0, hasdata |-> FALSE,
     data |-> <<>>, low |-> 0, high |-> 0, step |-> 0, offset |-> 0,
     choices |-> <<>>]

Failed == [ok |-> FALSE, d |-> NoDist]

\* Distribution._validate_marginal_distribution: data is consumed into the
\* frequency table; without data the marginal stays None
ValidateMarginal(a) ==
    IF ~a.hasdata THEN NoMarginal
    ELSE [present |-> TRUE, tab |-> value_counts(a.data)]

\* sorted(set(v)); Python cannot order a str against a number
Sortable(v) == \A x, y \in Range(v) : IsObj(x) = IsObj(y)

RECURSIVE SortSet(_)
SortSet(S) ==
    IF S = {} THEN <<>>
    ELSE LET m == CHOOSE x \in S : \A y \in S : x <= y
         IN <<m>> \o SortSet(S \ {m})

\* CategoricalDistribution._validate_choices
ChoicesFromMarginal(m) == Index(m.tab)

ValidateChoices(a, m) ==
    IF m.present THEN [ok |-> TRUE, v |-> ChoicesFromMarginal(m)]
    ELSE IF Len(a.choices) = 0 THEN [ok |-> FALSE, v |-> <<>>]
    ELSE IF ~Sortable(a.choices) THEN [ok |-> FALSE, v |-> <<>>]
    ELSE [ok |-> TRUE, v |-> SortSet(Range(a.choices))]

CategoricalDistribution(a) ==
    LET m == ValidateMarginal(a)
        c == ValidateChoices(a, m)
    IN IF ~c.ok THEN Failed
       ELSE [ok |-> TRUE,
             d |-> [NoDist EXCEPT !.kind = "categorical", !.name = a.name,
                                  !.random_state = a.random_state,
                                  !.marginal_distribution = m,
                                  !.choices = c.v]]

\* a low validator that returns the caller's value even with a marginal
FloatLowIgnoresMarginal(a, m) == a.low

\* FloatDistribution._validate_low_thresh / _validate_high_thresh
FloatLow(a, m) == IF m.present THEN IndexMin(m.tab) ELSE a.low

FloatHigh(a, m) == IF m.present THEN IndexMax(m.tab) ELSE a.high

FloatLike(kind, a) ==
    LET m == ValidateMarginal(a)
    IN [ok |-> TRUE,
        d |-> [NoDist EXCEPT !.kind = kind, !.name = a.name,
                             !.random_state = a.random_state,
                             !.marginal_distribution = m,
                             !.low = FloatLow(a, m), !.high = FloatHigh(a, m)]]

FloatDistribution(a) == FloatLike("float", a)

LogDistribution(a) == FloatLike("log", a)

\* IntegerDistribution._validate_low_thresh / _validate_high_thresh: int(...)
\* of the index minimum / maximum, which raises on NaN
IntLow(a, m) ==
    IF m.present
    THEN (IF IsNaN(IndexMin(m.tab)) THEN [ok |-> FALSE, v |-> 0]
          ELSE [ok |-> TRUE, v |-> TruncInt(IndexMin(m.tab))])
    ELSE [ok |-> TRUE, v |-> a.low]

IntHigh(a, m) ==
    IF m.present
    THEN (IF IsNaN(IndexMax(m.tab)) THEN [ok |-> FALSE, v |-> 0]
          ELSE [ok |-> TRUE, v |-> TruncInt(IndexMax(m.tab))])
    ELSE [ok |-> TRUE, v |-> a.high]

\* IntegerDistribution._validate_step: step < 1 is rejected
IntStepOk(v) == ~(v < Scale)

\* IntLogDistribution._validate_step: step != 1 is rejected
IntLogStepOk(v) == ~(v # Scale)

IntegerLike(kind, a, stepok) ==
    LET m == ValidateMarginal(a)
        lo == IntLow(a, m)
        hi == IntHigh(a, m)
    IN IF ~lo.ok \/ ~hi.ok \/ ~stepok THEN Failed
       ELSE [ok |-> TRUE,
             d |-> [NoDist EXCEPT !.kind = kind, !.name = a.name,
                                  !.random_state = a.random_state,
                                  !.marginal_distribution = m,
                                  !.low = lo.v, !.high = hi.v, !.step = a.step]]

IntegerDistribution(a) == IntegerLike("integer", a, IntStepOk(a.step))

IntLogDistribution(a) == IntegerLike("intlog", a, IntLogStepOk(a.step))

\* DatetimeDistribution._validate_low_thresh / _validate_high_thresh
DatetimeLow(a, m) == IF m.present THEN IndexMin(m.tab) ELSE a.low

DatetimeHigh(a, m) == IF m.present THEN IndexMax(m.tab) ELSE a.high

DatetimeDistribution(a) ==
    LET m == ValidateMarginal(a)
    IN [ok |-> TRUE,
        d |-> [NoDist EXCEPT !.kind = "datetime", !.name = a.name,
                             !.random_state = a.random_state,
                             !.marginal_distribution = m,
                             !.low = DatetimeLow(a, m), !.high = DatetimeHigh(a, m),
                             !.step = a.step, !.offset = a.offset]]

\* Variant(**kwargs): dispatch on the concrete class
Build(a) ==
    CASE a.kind = "categorical" -> CategoricalDistribution(a)
      [] a.kind = "float" -> FloatDistribution(a)
      [] a.kind = "log" -> LogDistribution(a)
      [] a.kind = "integer" -> IntegerDistribution(a)
      [] a.kind = "intlog" -> IntLogDistribution(a)
      [] a.kind = "datetime" -> DatetimeDistribution(a)

Ordered == {"float", "log", "integer", "intlog", "datetime"}

\* ------------------------------------------------------------------ queries
\* get(): the metadata list of each variant
get(x) ==
    CASE x.kind = "categorical" -> <<x.name, x.choices>>
      [] x.kind = "float" -> <<x.name, x.low, x.high>>
      [] x.kind = "log" -> <<x.name, x.low, x.high>>
      [] x.kind = "integer" -> <<x.name, x.low, x.high, x.step>>
      [] x.kind = "intlog" -> <<x.name, x.low, x.high>>
      [] x.kind = "datetime" -> <<x.name, x.low, x.high, x.step, x.offset>>

\* Distribution.__eq__: same class and equal get() lists
Eq(x, y) == x.kind = y.kind /\ get(x) = get(y)

\* has(val)
\* Categorical: `val in self.choices` finds a value by identity or by ==.  A
\* sampled NaN is the very object held in choices only when the index has
\* dtype object (some str key); from a float index tolist() makes a new NaN,
\* which equals nothing.
has(x, v) ==
    IF x.kind = "categorical"
    THEN /\ v \in Range(x.choices)
         /\ IsNaN(v) => \E c \in Range(x.choices) : IsObj(c)
    ELSE Le(x.low, v) /\ Le(v, x.high)

\* includes(other), for an other of the same class
CategoricalIncludes(x, y) ==
    y.kind = "categorical" /\ Range(y.choices) \subseteq Range(x.choices)

NumericIncludes(x, y) == Le(x.low, y.low) /\ Le(y.high, x.high)

DatetimeIncludes(x, y) ==
    /\ ~IsNaN(x.low) /\ ~IsNaN(y.low) /\ x.low - x.offset <= y.low
    /\ ~IsNaN(x.high) /\ ~IsNaN(y.high) /\ y.high <= x.high + x.offset

includes(x, y) ==
    CASE x.kind = "categorical" -> CategoricalIncludes(x, y)
      [] x.kind = "datetime" -> DatetimeIncludes(x, y)
      [] OTHER -> NumericIncludes(x, y)

\* CategoricalDistribution.dtype
TypeOf(v) ==
    IF IsObj(v) THEN "object"
    ELSE IF IsNaN(v) \/ v % Scale # 0 THEN "float"
    ELSE "int"

TypeCount(c, t) == Cardinality({i \in 1..Len(c) : TypeOf(c[i]) = t})

CategoricalDtype(c) ==
    IF TypeCount(c, "object") # 0 THEN "object"
    ELSE IF TypeCount(c, "float") # 0 THEN "float"
    ELSE IF TypeCount(c, "int") # 0 THEN "int"
    ELSE "object"

dtype(x) ==
    CASE x.kind = "categorical" -> CategoricalDtype(x.choices)
      [] x.kind \in {"float", "log"} -> "float"
      [] x.kind \in {"integer", "intlog"} -> "int"
      [] x.kind = "datetime" -> "datetime"

\* Variant(**dict(zip(field_names, instance.get()))): the fields of get()
\* handed back to the constructor, every other field left at its default
DefaultStep == Scale

FromGet(x) ==
    Build([NoArgs EXCEPT !.kind = x.kind, !.name = get(x)[1],
                         !.low = IF x.kind = "categorical" THEN 0 ELSE get(x)[2],
                         !.high = IF x.kind = "categorical" THEN 0 ELSE get(x)[3],
                         !.step = IF x.kind \in {"integer", "datetime"}
                                  THEN get(x)[4] ELSE DefaultStep,
                         !.offset = IF x.kind = "datetime" THEN get(x)[5] ELSE 0,
                         !.choices = IF x.kind = "categorical"
                                     THEN get(x)[2] ELSE <<>>])

\* ----------------------------------------------------- the numpy generator
\* The process-wide generator behind np.random.*: a deterministic stream that
\* np.random.seed resets.  A full-period congruential generator stands for it;
\* a draw advances the state and yields the number state / RngMod in [0, 1).
RngStates == 0..(RngMod - 1)

\* a reseed that leaves the generator where it is
SeedKeepsState(g, rs) == g

\* np.random.seed(random_state)
Seed(g, rs) == rs % RngMod

Advance(g) == (RngMul * g + RngInc) % RngMod

RECURSIVE AdvanceN(_, _)
AdvanceN(g, n) == IF n = 0 THEN g ELSE Advance(AdvanceN(g, n - 1))

\* the next `count` numbers of the stream, as numerators over RngMod
Stream(g, count) == [i \in 1..count |-> AdvanceN(g, i)]

Raised == [raised |-> TRUE, vals |-> <<>>]

Returned(v) == [raised |-> FALSE, vals |-> v]

\* np.random.choice(n): an index in 0..n-1
ChoiceIndex(u, n) == (u * n) \div RngMod

\* np.random.choice(states, p=probabilities): first state whose cumulative
\* probability exceeds the drawn number
RECURSIVE CumCount(_, _)
CumCount(tab, i) == IF i = 0 THEN 0 ELSE CumCount(tab, i - 1) + tab[i][2]

WeightedIndex(u, tab) ==
    LET total == CumCount(tab, Len(tab))
    IN CHOOSE i \in 1..Len(tab) :
         /\ u * total < RngMod * CumCount(tab, i)
         /\ \A j \in 1..(i - 1) : ~(u * total < RngMod * CumCount(tab, j))

\* Distribution.sample_marginal, after its reseed: the draw from the marginal
\* (raises on an empty table)
MarginalDraw(x, us) ==
    LET tab == x.marginal_distribution.tab
    IN IF Len(tab) = 0 THEN Raised
       ELSE Returned([i \in 1..Len(us) |-> tab[WeightedIndex(us[i], tab)][1]])

\* CategoricalDistribution.sample without marginal
CategoricalDraw(x, us) ==
    IF Len(x.choices) = 0 THEN Raised
    ELSE Returned([i \in 1..Len(us) |->
                     x.choices[ChoiceIndex(us[i], Len(x.choices)) + 1]])

\* np.random.uniform(low, high): low + (high - low) * u, on the value grid
Uniform(lo, hi, u) == lo + ((hi - lo) * u) \div RngMod

\* FloatDistribution.sample without marginal
FloatDraw(x, us) == Returned([i \in 1..Len(us) |-> Uniform(x.low, x.high, us[i])])

RECURSIVE Pow(_, _)
Pow(b, e) == IF e = 0 THEN 1 ELSE b * Pow(b, e - 1)

\* 2.0 ** uniform(log2(lo), log2(hi)) = lo^(1-u) * hi^u, rounded down to a
\* multiple of res: the largest grid value v with v^RngMod <= lo^(RngMod-u) * hi^u
Exp2Uniform(lo, hi, u, res) ==
    LET top == IF lo >= hi THEN lo ELSE hi
        target == Pow(lo, RngMod - u) * Pow(hi, u)
        grid == {v \in 0..top : v % res = 0 /\ Pow(v, RngMod) <= target}
    IN CHOOSE v \in grid : \A w \in grid : w <= v

\* LogDistribution.sample without marginal: log2 of a non-positive bound is
\* -inf or nan, and uniform() refuses such a range
LogDraw(x, us) ==
    IF x.low <= 0 \/ x.high <= 0 THEN Raised
    ELSE Returned([i \in 1..Len(us) |-> Exp2Uniform(x.low, x.high, us[i], 1)])

\* a grid one step longer than the range holds
GridStepsOneMore(x) == (x.high - x.low) \div x.step + 1

\* IntegerDistribution.sample without marginal
GridSteps(x) == (x.high - x.low) \div x.step

IntegerDraw(x, us) ==
    IF GridSteps(x) + 1 <= 0 THEN Raised
    ELSE Returned([i \in 1..Len(us) |->
                     ChoiceIndex(us[i], GridSteps(x) + 1) * x.step + x.low])

\* IntLogDistribution.sample without marginal: astype(int) truncates
IntLogDraw(x, us) ==
    IF x.low <= 0 \/ x.high <= 0 THEN Raised
    ELSE Returned([i \in 1..Len(us) |-> Exp2Uniform(x.low, x.high, us[i], Scale)])

\* np.round: to the nearest integer, halves to the even one
RoundHalfEven(num, den) ==
    LET q == num \div den
        r == num - q * den
    IN IF 2 * r < den THEN q
       ELSE IF 2 * r > den THEN q + 1
       ELSE IF q % 2 = 0 THEN q ELSE q + 1

\* DatetimeDistribution.sample without marginal
DatetimeDraw(x, us) ==
    LET n == (x.high - x.low) \div x.step + 1
    IN Returned([i \in 1..Len(us) |->
                   x.low + RoundHalfEven(2 * us[i] * n - RngMod, 2 * RngMod) * x.step])

OwnDraw(x, us) ==
    CASE x.kind = "categorical" -> CategoricalDraw(x, us)
      [] x.kind = "float" -> FloatDraw(x, us)
      [] x.kind = "log" -> LogDraw(x, us)
      [] x.kind = "integer" -> IntegerDraw(x, us)
      [] x.kind = "intlog" -> IntLogDraw(x, us)
      [] x.kind = "datetime" -> DatetimeDraw(x, us)

\* the drawing part of sample(): from the marginal when there is one, else
\* the variant's own strategy; the generator moves on by what was drawn
Draw(x, count, g) ==
    LET us == Stream(g, count)
        r == IF x.marginal_distribution.present THEN MarginalDraw(x, us)
             ELSE OwnDraw(x, us)
    IN [ret |-> r, rng |-> IF r.raised THEN g ELSE AdvanceN(g, count)]

\* sample(count) run by a single caller from generator state g: the reseed in
\* sample, the reseed in sample_marginal, then the draw
sample(x, count, g) ==
    Draw(x, count, Seed(Seed(g, x.random_state), x.random_state))

\* ------------------------------------------------------------------ inputs
BaseArgs(kind) == [NoArgs EXCEPT !.kind = kind]

NoData(kind) ==
    {[BaseArgs(kind) EXCEPT !.name = n, !.random_state = rs] :
        n \in Names, rs \in Seeds}

WithData(kind, keys) ==
    {[BaseArgs(kind) EXCEPT !.name = n, !.random_state = rs,
                            !.hasdata = TRUE, !.data = dt] :
        n \in Names, rs \in Seeds, dt \in SeqsUpTo(keys, MaxData)}

\* bounds a caller passes along with data (the validators then ignore them)
DataBounds == {<<0, 0>>, <<Scale, 0>>}

CategoricalArgs ==
    {[a EXCEPT !.choices = c] : a \in NoData("categorical"),
                                c \in SeqsUpTo(CatVals, MaxChoices)}
    \cup WithData("categorical", CatKeys)

FloatArgs(kind) ==
    {[a EXCEPT !.low = lo, !.high = hi] : a \in NoData(kind), lo \in Nums, hi \in Nums}
    \cup {[a EXCEPT !.low = b[1], !.high = b[2]] :
            a \in WithData(kind, NumKeys), b \in DataBounds}

IntegerArgs(kind) ==
    {[a EXCEPT !.low = lo, !.high = hi, !.step = st] :
        a \in NoData(kind), lo \in Ints, hi \in Ints, st \in {0, Scale, 2 * Scale}}
    \cup {[a EXCEPT !.low = b[1], !.high = b[2], !.step = Scale] :
            a \in WithData(kind, NumKeys), b \in DataBounds}

DatetimeArgs ==
    {[a EXCEPT !.low = lo, !.high = hi, !.step = st, !.offset = off] :
        a \in NoData("datetime"), lo \in Ticks, hi \in Ticks,
        st \in {1, 2}, off \in {-1, 0, 1}}
    \cup {[a EXCEPT !.low = b[1], !.high = b[2], !.step = 1, !.offset = off] :
            a \in WithData("datetime", TickKeys), b \in DataBounds, off \in {-1, 1}}

AllArgs ==
    DatetimeArgs \cup CategoricalArgs \cup FloatArgs("float") \cup FloatArgs("log")
    \cup IntegerArgs("integer") \cup IntegerArgs("intlog")

\* ------------------------------------------------------------------- state
NoOut ==
    [op |-> "none", ok |-> TRUE, tag |-> "", count |-> 0, vals |-> <<>>,
     repeat |-> FALSE, between |-> FALSE]

NoHist == [c \in Counts |-> [set |-> FALSE, raised |-> FALSE, vals |-> <<>>]]

Idle == [pc |-> "idle", slot |-> 1, count |-> 0, raised |-> FALSE, vals |-> <<>>]

Callers == {1, 2}

Init ==
    /\ d = NoDist
    /\ args = NoArgs
    /\ out = NoOut
    /\ rng = 0
    /\ hist = NoHist
    /\ pair = <<NoDist, NoDist>>
    /\ calls = [c \in Callers |-> Idle]

\* Variant(name=..., data=..., ...): the validators run; the instance exists
\* only if none of them raises
Construct(a) ==
    /\ args = NoArgs
    /\ args' = a
    /\ d' = Build(a).d
    /\ out' = [NoOut EXCEPT !.op = "construct", !.ok = Build(a).ok]
    /\ UNCHANGED <<rng, hist, pair, calls>>

\* the instance goes out of scope
Discard ==
    /\ args # NoArgs
    /\ args' = NoArgs
    /\ d' = NoDist
    /\ out' = NoOut
    /\ hist' = NoHist
    /\ UNCHANGED <<rng, pair, calls>>

\* Variant(**dict(zip(field_names, d.get()))) == d
RoundTrip ==
    /\ d # NoDist
    /\ out' = [NoOut EXCEPT !.op = "roundtrip",
                            !.ok = FromGet(d).ok /\ Eq(FromGet(d).d, d)]
    /\ UNCHANGED <<d, args, rng, hist, pair, calls>>

\* d.includes(d)
Includes ==
    /\ d # NoDist
    /\ out' = [NoOut EXCEPT !.op = "includes", !.ok = includes(d, d)]
    /\ UNCHANGED <<d, args, rng, hist, pair, calls>>

\* d.dtype()
Dtype ==
    /\ d # NoDist
    /\ out' = [NoOut EXCEPT !.op = "dtype", !.tag = dtype(d)]
    /\ UNCHANGED <<d, args, rng, hist, pair, calls>>

Next ==
    \/ \E a \in AllArgs : Construct(a)
    \/ Discard
    \/ RoundTrip
    \/ Includes
    \/ Dtype

Spec == Init /\ [][Next]_vars

\* ------------------------------------------------- sampling, single caller
\* the raw data sets sampled distributions are built from
SampleData(keys) ==
    LET a == CHOOSE k \in keys : ~IsNaN(k) /\ \A j \in keys : IsNaN(j) \/ k <= j
        b == CHOOSE k \in keys : ~IsNaN(k) /\ \A j \in keys : IsNaN(j) \/ k >= j
    IN {<<>>, <<NaN>>, <<b, b, a>>, <<a, NaN, b>>, <<a + 1>>}

WithSampleData(kind, keys) ==
    {[BaseArgs(kind) EXCEPT !.name = n, !.random_state = rs,
                            !.hasdata = TRUE, !.data = dt, !.step = st] :
        n \in Names, rs \in Seeds, dt \in SampleData(keys),
        st \in {IF kind = "datetime" THEN 1 ELSE Scale}}

SampleArgs ==
    {a \in AllArgs : ~a.hasdata /\ a.offset = 0}
    \cup UNION {WithSampleData(k, NumKeys) :
                  k \in {"categorical", "float", "log", "integer", "intlog"}}
    \cup WithSampleData("datetime", TickKeys)

\* the other distributions of the process, whose sample() calls share the
\* generator
OtherArgs ==
    {[a EXCEPT !.low = 0, !.high = 2 * Scale] : a \in NoData("float")}
    \cup {[a EXCEPT !.hasdata = TRUE, !.data = <<Scale, Scale, 2 * Scale>>] :
            a \in NoData("categorical")}

OtherDists == {Build(a).d : a \in OtherArgs}

\* d.sample(count), a completed call of the single caller
Sample(count) ==
    LET r == sample(d, count, rng)
    IN /\ d # NoDist
       /\ rng' = r.rng
       /\ out' = [NoOut EXCEPT !.op = "sample", !.ok = ~r.ret.raised,
                               !.count = count, !.vals = r.ret.vals,
                               !.repeat = hist[count].set,
                               !.between = (out.op = "other"
                                            \/ (out.op = "sample" /\ out.count # count))]
       /\ hist' = IF hist[count].set THEN hist
                  ELSE [hist EXCEPT ![count] = [set |-> TRUE, raised |-> r.ret.raised,
                                                vals |-> r.ret.vals]]
       /\ UNCHANGED <<d, args, pair, calls>>

\* o.sample(count) on another distribution o, result dropped
SampleOther(o, count) ==
    /\ d # NoDist
    /\ rng' = sample(o, count, rng).rng
    /\ out' = [NoOut EXCEPT !.op = "other"]
    /\ UNCHANGED <<d, args, hist, pair, calls>>

NextSample ==
    \/ \E a \in SampleArgs : Construct(a)
    \/ Discard
    \/ \E c \in Counts : Sample(c)
    \/ \E o \in OtherDists, c \in Counts : SampleOther(o, c)

SpecSample == Init /\ [][NextSample]_vars

\* ------------------------------------------------ sampling, two callers
\* the distributions the two concurrent callers sample
SharedArgs ==
    {[BaseArgs("float") EXCEPT !.name = "x", !.low = 0, !.high = 2 * Scale],
     [BaseArgs("integer") EXCEPT !.name = "x", !.random_state = 1,
                                 !.low = 0, !.high = 2 * Scale, !.step = Scale],
     [BaseArgs("categorical") EXCEPT !.name = "x", !.hasdata = TRUE,
                                     !.data = <<Scale, Scale, 2 * Scale>>]}

SharedDists == {Build(a).d : a \in SharedArgs}

InitConc ==
    /\ d = NoDist
    /\ args = NoArgs
    /\ out = NoOut
    /\ rng = 0
    /\ hist = NoHist
    /\ pair \in [1..2 -> SharedDists]
    /\ calls = [c \in Callers |-> Idle]

\* sample(): np.random.seed(self.random_state)
CallSeed(c, slot, count) ==
    /\ calls[c].pc = "idle"
    /\ rng' = Seed(rng, pair[slot].random_state)
    /\ calls' = [calls EXCEPT ![c] = [Idle EXCEPT !.pc = "seeded", !.slot = slot,
                                                  !.count = count]]
    /\ UNCHANGED <<d, args, out, hist, pair>>

\* sample_marginal(): np.random.seed(self.random_state)
MarginalSeed(c) ==
    /\ calls[c].pc = "seeded"
    /\ rng' = Seed(rng, pair[calls[c].slot].random_state)
    /\ calls' = [calls EXCEPT ![c].pc = "drawing"]
    /\ UNCHANGED <<d, args, out, hist, pair>>

\* the np.random.choice / uniform call and the return
DrawStep(c) ==
    LET r == Draw(pair[calls[c].slot], calls[c].count, rng)
    IN /\ calls[c].pc = "drawing"
       /\ rng' = r.rng
       /\ calls' = [calls EXCEPT ![c].pc = "done", ![c].raised = r.ret.raised,
                                 ![c].vals = r.ret.vals]
       /\ UNCHANGED <<d, args, out, hist, pair>>

\* the caller takes the result and may call again
Return(c) ==
    /\ calls[c].pc = "done"
    /\ calls' = [calls EXCEPT ![c] = Idle]
    /\ UNCHANGED <<d, args, out, rng, hist, pair>>

NextConc ==
    \/ \E c \in Callers, s \in 1..2, n \in Counts : CallSeed(c, s, n)
    \/ \E c \in Callers : MarginalSeed(c)
    \/ \E c \in Callers : DrawStep(c)
    \/ \E c \in Callers : Return(c)

SpecConc == InitConc /\ [][NextConc]_vars

\* ------------------------------------------------------------------ claims
Keys == Range(Index(d.marginal_distribution.tab))

OrderedKeys == {k \in Keys : ~IsNaN(k)}

IsLeastKey(v) == v \in OrderedKeys /\ \A k \in OrderedKeys : v <= k

IsGreatestKey(v) == v \in OrderedKeys /\ \A k \in OrderedKeys : v >= k

\* v is w with its fractional part cut off
IsTruncationOf(v, w) == v % Scale = 0 /\ v <= w /\ w < v + Scale

HasMarginal == d.marginal_distribution.present

\* C1: a sample() call that runs concurrently with another one, their reseed
\* and draw steps interleaved in any order, returns exactly what it returns
\* when it runs alone on the same distribution with the same count.
C1_ReentrantSafe ==
    \A c \in Callers :
        calls[c].pc = "done" =>
            LET alone == sample(pair[calls[c].slot], calls[c].count, 0).ret
            IN calls[c].raised = alone.raised /\ calls[c].vals = alone.vals

\* C2: for a single caller every sample(count) on an untouched distribution
\* returns what the first sample(count) on it returned, whatever completed
\* calls on it or on other distributions came before or in between.
C2_Deterministic ==
    out.op = "sample" =>
        /\ hist[out.count].set
        /\ hist[out.count].raised = ~out.ok
        /\ hist[out.count].vals = out.vals

\* C2 witness: a repeated sample(count) on a distribution with a marginal,
\* after a call on another distribution or with another count, has returned
C2_Witness ==
    /\ out.op = "sample" /\ out.repeat /\ out.between
    /\ out.ok /\ Len(out.vals) = MaxCount
    /\ HasMarginal /\ \E i, j \in 1..Len(out.vals) : out.vals[i] # out.vals[j]

\* C3: an ordered variant constructed with low > high is rejected, so every
\* constructed ordered distribution has low <= high.
C3_LowAboveHighRejected ==
    /\ (args.kind \in Ordered /\ ~args.hasdata /\ args.low > args.high) => d = NoDist
    /\ (d.kind \in Ordered /\ ~HasMarginal) => d.low <= d.high

C5_ChoicesSortedUnique ==
    /\ d.kind = "categorical" =>
         /\ Len(d.choices) > 0
         /\ \A i \in 1..(Len(d.choices) - 1) : d.choices[i] < d.choices[i + 1]
    /\ (args.kind = "categorical" /\ ~args.hasdata /\ Len(args.choices) = 0) =>
         d = NoDist

\* C6: the variant constructed from the fields of d.get() equals d.
C6_RoundTrip == out.op = "roundtrip" => out.ok

\* C7: d.includes(d) is true for every constructed d.
C7_Reflexive == out.op = "includes" => out.ok

\* C8: without a marginal and with low <= high, IntegerDistribution.sample
\* returns only grid points low + k*step with 0 <= k <= floor((high-low)/step),
\* and each of these grid points is what some generator state yields.
C8_IntegerGrid ==
    (d.kind = "integer" /\ ~HasMarginal /\ d.low <= d.high) =>
        LET top == (d.high - d.low) \div d.step
        IN /\ d.step >= Scale
           /\ (out.op = "sample") =>
                /\ out.ok
                /\ Len(out.vals) = out.count
                /\ \A i \in 1..Len(out.vals) :
                     /\ out.vals[i] <= d.high
                     /\ \E k \in 0..top : out.vals[i] = d.low + k * d.step
           /\ \A k \in 0..top : \E g \in RngStates :
                Draw(d, 1, g).ret.vals = <<d.low + k * d.step>>

\* C8 witness: a sample on a grid whose last point lies below high has
\* returned that last point
C8_Witness ==
    /\ d.kind = "integer" /\ ~HasMarginal /\ d.low < d.high
    /\ d.step > Scale /\ (d.high - d.low) % d.step # 0
    /\ out.op = "sample" /\ out.ok /\ out.count = MaxCount
    /\ \E i \in 1..Len(out.vals) : out.vals[i] + d.step > d.high

\* C9: CategoricalDistribution.dtype() is the tag most choices have; among
\* tags with equally many choices the first of object, float, int; "object"
\* for no choices.
MostCommonType(c) ==
    LET n(t) == TypeCount(c, t)
        best(t) == n(t) > 0 /\ \A u \in {"object", "float", "int"} : n(u) <= n(t)
    IN IF best("object") THEN "object"
       ELSE IF best("float") THEN "float"
       ELSE IF best("int") THEN "int"
       ELSE "object"

C9_MajorityVote ==
    (out.op = "dtype" /\ d.kind = "categorical") => out.tag = MostCommonType(d.choices)

\* C10: every value a returning sample(count) yields is in the support:
\* d.has(v) is true.
C10_SamplesInSupport ==
    (out.op = "sample" /\ out.ok) => \A i \in 1..Len(out.vals) : has(d, out.vals[i])

====
